---- MODULE Spec2Model ----
(***************************************************************************)
(* A model of package elliptic (elliptic/elliptic.go): the generic         *)
(* short-Weierstrass (a = -3) arithmetic in Jacobian coordinates, the      *)
(* X9.62 point codec, GenerateKey and the once-guarded curve accessors.    *)
(*                                                                         *)
(* safenum.Nat values are modelled by natural numbers, a nil pointer by    *)
(* Nil.  The curve is a CurveParams value with a 9-bit prime field: like   *)
(* P-384 and P-521 it has P = 3 (mod 4), a base point of prime order       *)
(* N < P with cofactor 1, ceil(BitSize/8) >= 2 and a quadratic residue B   *)
(* (so points with x = 0 exist, as they do on P-384 and P-521).            *)
(***************************************************************************)
EXTENDS Integers, Sequences, FiniteSets, TLC

VARIABLES
    \* ---- Add (SpecAdd)
    addArgs,    \* <<x1, y1, x2, y2>> of the last call of Add, or <<>>
    addRet,     \* its result <<x, y>>
    \* ---- ScalarMult (SpecScalar)
    k1, k2,     \* the scalars of the two ScalarMult calls (Nil: not called)
    pt1, pt2,   \* ScalarMult(G, k1), ScalarMult(G, k2)
    ptSum,      \* Add(pt1, pt2)
    ptTotal,    \* ScalarMult(G, (k1 + k2) mod N)
    \* ---- codec (SpecCodec)
    data,       \* the byte string at hand
    src,        \* where data comes from
    pt,         \* the point that was marshalled into data
    cop,        \* the last decoding operation
    dec,        \* its result <<x, y>>; <<Nil, Nil>> is "no point"
    \* ---- GenerateKey (SpecKey)
    kpc,        \* "loop": at the head of the for loop; "done": returned
    priv,       \* the priv buffer
    kx, ky,     \* the named results x, y
    kerr,       \* the named result err
    reads,      \* reads of the random source so far
    mults,      \* calls of ScalarBaseMult so far
    \* ---- curve accessors (SpecOnce)
    opc,        \* per thread: position inside P384() / P521()
    acc,        \* per thread: the accessor it is in
    calls,      \* per thread: calls started so far
    onceDone,   \* initonce.done
    onceM,      \* initonce.m: the thread holding the mutex, or 0
    step,       \* the step of initAll to run next (0: initAll is not running)
    p384, p521, \* the package variables: 0 is nil, else the object's identity
    heap,       \* per object: the set of fields assigned so far
    allocs,     \* objects allocated so far
    initRuns,   \* times initAll was entered
    returned    \* what the calls returned: <<accessor, object, its fields, initAll completed>>

vars == <<addArgs, addRet, k1, k2, pt1, pt2, ptSum, ptTotal,
          data, src, pt, cop, dec,
          kpc, priv, kx, ky, kerr, reads, mults,
          opc, acc, calls, onceDone, onceM, step, p384, p521, heap, allocs,
          initRuns, returned>>

addVars    == <<addArgs, addRet>>
scalarVars == <<k1, k2, pt1, pt2, ptSum, ptTotal>>
codecVars  == <<data, src, pt, cop, dec>>
keyVars    == <<kpc, priv, kx, ky, kerr, reads, mults>>
onceVars   == <<opc, acc, calls, onceDone, onceM, step, p384, p521, heap,
                allocs, initRuns, returned>>

\* A nil *safenum.Nat.
Nil == -1

\* ------------------------------------------------------------------------
\* The curve: a CurveParams value (y^2 = x^3 - 3x + 7 over GF(271), order 269).
P == 271
N == 269
B == 7
Gx == 2
Gy == 3
BitSize == 9

\* ------------------------------------------------------------------------
\* Bytes and the arithmetic backend (safenum.Nat, math/big).

RECURSIVE Pow2(_)
Pow2(n) == IF n = 0 THEN 1 ELSE 2 * Pow2(n - 1)

\* a & b and a ^ b on bytes.
RECURSIVE BitAnd(_, _, _)
BitAnd(a, b, n) ==
    IF n = 0 THEN 0
    ELSE (IF a % 2 = 1 /\ b % 2 = 1 THEN 1 ELSE 0)
         + 2 * BitAnd(a \div 2, b \div 2, n - 1)

RECURSIVE BitXor(_, _, _)
BitXor(a, b, n) ==
    IF n = 0 THEN 0
    ELSE (IF a % 2 # b % 2 THEN 1 ELSE 0)
         + 2 * BitXor(a \div 2, b \div 2, n - 1)

RECURSIVE BitOr(_, _, _)
BitOr(a, b, n) ==
    IF n = 0 THEN 0
    ELSE (IF a % 2 = 1 \/ b % 2 = 1 THEN 1 ELSE 0)
         + 2 * BitOr(a \div 2, b \div 2, n - 1)

\* N.BitLen(): the number of bits of v.
RECURSIVE BitLen(_)
BitLen(v) == IF v = 0 THEN 0 ELSE 1 + BitLen(v \div 2)

\* Nat.SetBytes / big.Int.SetBytes: the big-endian value of a byte string.
RECURSIVE SetBytes(_)
SetBytes(s) ==
    IF Len(s) = 0 THEN 0
    ELSE 256 * SetBytes(SubSeq(s, 1, Len(s) - 1)) + s[Len(s)]

\* big.Int.FillBytes: v as a big-endian byte string of exactly n bytes.
FillBytes(v, n) == [i \in 1..n |-> (v \div Pow2(8 * (n - i))) % 256]

ModAdd(a, b, m) == (a + b) % m
ModSub(a, b, m) == ((a % m) + m - (b % m)) % m
ModMul(a, b, m) == (a * b) % m

\* Nat.ModInverse: the inverse of z modulo the prime m (z not 0 mod m).
ModInverse(z, m) == CHOOSE i \in 1..(m - 1) : (i * z) % m = 1

RECURSIVE ModExp(_, _, _)
ModExp(b, e, m) ==
    IF e = 0 THEN 1 % m
    ELSE LET h == ModExp(b, e \div 2, m)
             s == (h * h) % m
         IN IF e % 2 = 1 THEN (s * b) % m ELSE s

\* ------------------------------------------------------------------------
\* The point arithmetic engine.

\* polynomial returns x^3 - 3x + b.
polynomial(x) ==
    LET x3a    == ModMul(x, x, P)
        x3b    == ModMul(x3a, x, P)
        threeX == ModAdd(ModAdd(x, x, P), x, P)
        x3c    == ModSub(x3b, threeX, P)
    IN ModAdd(x3c, B, P)

IsOnCurve(x, y) == polynomial(x) = ModMul(y, y, P)

\* zForAffine as written: the condition tests x twice, never y.
zForAffine(x, y) == IF x # 0 \/ x # 0 THEN 1 ELSE 0

affineFromJacobian(j) ==
    LET x == j[1]
        y == j[2]
        z == j[3]
    IN IF z = 0 THEN <<0, 0>>
       ELSE LET zinv   == ModInverse(z, P)
                zinvsq == ModMul(zinv, zinv, P)
                xOut   == ModMul(x, zinvsq, P)
                zinvcu == ModMul(zinvsq, zinv, P)
                yOut   == ModMul(y, zinvcu, P)
            IN <<xOut, yOut>>

doubleJacobian(j) ==
    LET x == j[1]
        y == j[2]
        z == j[3]
        delta  == ModMul(z, z, P)
        gamma  == ModMul(y, y, P)
        alphaA == ModSub(x, delta, P)
        alpha2 == ModAdd(x, delta, P)
        alphaB == ModMul(alphaA, alpha2, P)
        alphaC == ModAdd(alphaB, alphaB, P)
        alpha  == ModAdd(alphaC, alphaB, P)
        beta   == ModMul(x, gamma, P)
        x3a    == ModMul(alpha, alpha, P)
        beta8  == ModMul(beta, 8, P)
        x3     == ModSub(x3a, beta8, P)
        z3a    == ModAdd(y, z, P)
        z3b    == ModMul(z3a, z3a, P)
        z3c    == ModSub(z3b, gamma, P)
        z3     == ModSub(z3c, delta, P)
        beta4  == ModMul(beta, 4, P)
        betaX  == ModSub(beta4, x3, P)
        y3a    == ModMul(alpha, betaX, P)
        gammaA == ModMul(gamma, gamma, P)
        gammaB == ModMul(gammaA, 8, P)
        y3     == ModSub(y3a, gammaB, P)
    IN <<x3, y3, z3>>

addJacobian(j1, j2) ==
    LET x1 == j1[1]
        y1 == j1[2]
        z1 == j1[3]
        x2 == j2[1]
        y2 == j2[2]
        z2 == j2[3]
    IN IF z1 = 0 THEN <<x2, y2, z2>>
       ELSE IF z2 = 0 THEN <<x1, y1, z1>>
       ELSE
        LET z1z1 == ModMul(z1, z1, P)
            z2z2 == ModMul(z2, z2, P)
            u1   == ModMul(x1, z2z2, P)
            u2   == ModMul(x2, z1z1, P)
            h    == ModSub(u2, u1, P)
            xEqual == (h = 0)
            iA   == ModAdd(h, h, P)
            i    == ModMul(iA, iA, P)
            jj   == ModMul(h, i, P)
            s1A  == ModMul(y1, z2, P)
            s1   == ModMul(s1A, z2z2, P)
            s2A  == ModMul(y2, z1, P)
            s2   == ModMul(s2A, z1z1, P)
            rA   == ModSub(s2, s1, P)
            yEqual == (rA = 0)
        IN IF xEqual /\ yEqual THEN doubleJacobian(<<x1, y1, z1>>)
           ELSE
            LET r    == ModAdd(rA, rA, P)
                v    == ModMul(u1, i, P)
                x3a  == ModMul(r, r, P)
                x3b  == ModSub(x3a, jj, P)
                x3c  == ModSub(x3b, v, P)
                x3   == ModSub(x3c, v, P)
                vX   == ModSub(v, x3, P)
                y3a  == ModMul(r, vX, P)
                s1J  == ModMul(s1, jj, P)
                s1JJ == ModAdd(s1J, s1J, P)
                y3   == ModSub(y3a, s1JJ, P)
                z3a  == ModAdd(z1, z2, P)
                z3b  == ModMul(z3a, z3a, P)
                z3c  == ModSub(z3b, z1z1, P)
                z3d  == ModSub(z3c, z2z2, P)
                z3   == ModMul(z3d, h, P)
            IN <<x3, y3, z3>>

Add(x1, y1, x2, y2) ==
    LET z1 == zForAffine(x1, y1)
        z2 == zForAffine(x2, y2)
    IN affineFromJacobian(addJacobian(<<x1, y1, z1>>, <<x2, y2, z2>>))

\* The inner loop of ScalarMult: the eight bits of one byte, high bit first.
\* (The test on Len(a) is always true: it only makes TLC compute the
\* accumulator of this iteration before it starts the next one.)
RECURSIVE ScalarMultBits(_, _, _, _, _)
ScalarMultBits(Bx, By, j, byte, bitNum) ==
    IF bitNum = 8 THEN j
    ELSE LET d == doubleJacobian(j)
             a == IF BitAnd(byte, 128, 8) = 128
                  THEN addJacobian(<<Bx, By, 1>>, d)
                  ELSE d
         IN IF Len(a) = 3
            THEN ScalarMultBits(Bx, By, a, (byte * 2) % 256, bitNum + 1)
            ELSE a

\* The outer loop of ScalarMult: the bytes of k from index i on.
RECURSIVE ScalarMultBytes(_, _, _, _, _)
ScalarMultBytes(Bx, By, j, k, i) ==
    IF i > Len(k) THEN j
    ELSE ScalarMultBytes(Bx, By, ScalarMultBits(Bx, By, j, k[i], 0), k, i + 1)

ScalarMult(Bx, By, k) ==
    affineFromJacobian(ScalarMultBytes(Bx, By, <<0, 0, 0>>, k, 1))

ScalarBaseMult(k) == ScalarMult(Gx, Gy, k)

\* ------------------------------------------------------------------------
\* The point codec.

\* (curve.Params().BitSize + 7) / 8
byteLen == (BitSize + 7) \div 8

\* The result of a failed decoding: x = nil, y = nil.
NilPoint == <<Nil, Nil>>

\* big.Int.Bit(0)
Bit0(v) == v % 2

Marshal(x, y) ==
    <<4>> \o FillBytes(x, byteLen) \o FillBytes(y, byteLen)

\* MarshalCompressed with the parity of y left out of the tag.
MarshalCompressedNoParity(x, y) ==
    <<2>> \o FillBytes(x, byteLen)

MarshalCompressed(x, y) ==
    <<BitOr(Bit0(y), 2, 8)>> \o FillBytes(x, byteLen)

\* Unmarshal with > for >= in the range check.
UnmarshalOffByOne(d) ==
    IF Len(d) # 1 + 2 * byteLen THEN NilPoint
    ELSE IF d[1] # 4 THEN NilPoint
    ELSE LET x == SetBytes(SubSeq(d, 2, 1 + byteLen))
             y == SetBytes(SubSeq(d, 2 + byteLen, Len(d)))
         IN IF x > P \/ y > P THEN NilPoint
            ELSE IF ~IsOnCurve(x, y) THEN NilPoint
            ELSE <<x, y>>

Unmarshal(d) ==
    IF Len(d) # 1 + 2 * byteLen THEN NilPoint
    ELSE IF d[1] # 4 THEN NilPoint
    ELSE LET x == SetBytes(SubSeq(d, 2, 1 + byteLen))
             y == SetBytes(SubSeq(d, 2 + byteLen, Len(d)))
         IN IF x >= P \/ y >= P THEN NilPoint
            ELSE IF ~IsOnCurve(x, y) THEN NilPoint
            ELSE <<x, y>>

\* Nat.Bytes(), Modulus.Bytes(): big-endian, as long as the modulus.
NatBytes(v) == FillBytes(v, (BitLen(P) + 7) \div 8)

\* big.Int.Bytes(): big-endian, without leading zero bytes.
BigBytes(v) == FillBytes(v, (BitLen(v) + 7) \div 8)

\* big.Jacobi(x, p) for an odd prime p.
Jacobi(x, p) ==
    LET e == ModExp(x % p, (p - 1) \div 2, p)
    IN IF e = 0 THEN 0 ELSE IF e = 1 THEN 1 ELSE -1

\* The receiver z after z.ModSqrt(x, p) of math/big: a square root of x
\* mod p when there is one, z unchanged when there is none (the call then
\* returns nil, which the caller drops).
ModSqrt(z, x, p) ==
    IF Jacobi(x, p) = -1 THEN z
    ELSE IF Jacobi(x, p) = 0 THEN 0
    ELSE IF p % 4 = 3 THEN ModExp(x % p, (p + 1) \div 4, p)
    ELSE CHOOSE r \in 1..(p - 1) : (r * r) % p = x % p

\* decompressY without the negation of a root of the wrong parity.
decompressYNoNegate(x, tag) ==
    LET y0    == polynomial(x)
        yBig0 == SetBytes(NatBytes(y0))
        pBig  == SetBytes(NatBytes(P))
        yBig1 == ModSqrt(yBig0, yBig0, pBig)
    IN SetBytes(BigBytes(yBig1))

\* Lines 336-347 of UnmarshalCompressed: the y recovered for x under the
\* tag byte.
decompressY(x, tag) ==
    LET y0    == polynomial(x)
        yBig0 == SetBytes(NatBytes(y0))
        pBig  == SetBytes(NatBytes(P))
        \* the result of ModSqrt is dropped; yBig is the receiver
        yBig1 == ModSqrt(yBig0, yBig0, pBig)
        \* yBig == nil is false: yBig is new(big.Int)
        yBig2 == IF Bit0(yBig1) # BitAnd(tag, 1, 8)
                 THEN (pBig - (yBig1 % pBig)) % pBig
                 ELSE yBig1
    IN SetBytes(BigBytes(yBig2))

\* UnmarshalCompressed without the final IsOnCurve check.
UnmarshalCompressedUnchecked(d) ==
    IF Len(d) # 1 + byteLen THEN NilPoint
    ELSE IF d[1] # 2 /\ d[1] # 3 THEN NilPoint
    ELSE LET x == SetBytes(SubSeq(d, 2, Len(d)))
         IN IF x >= P THEN NilPoint
            ELSE <<x, decompressY(x, d[1])>>

UnmarshalCompressed(d) ==
    IF Len(d) # 1 + byteLen THEN NilPoint
    ELSE IF d[1] # 2 /\ d[1] # 3 THEN NilPoint
    ELSE LET x == SetBytes(SubSeq(d, 2, Len(d)))
         IN IF x >= P THEN NilPoint
            ELSE LET y == decompressY(x, d[1])
                 IN IF ~IsOnCurve(x, y) THEN NilPoint
                    ELSE <<x, y>>

\* ------------------------------------------------------------------------
\* GenerateKey.

mask == <<255, 1, 3, 7, 15, 31, 63, 127>>

\* N.BitLen()
bitSize == BitLen(N)

\* (bitSize + 7) / 8: the length of priv.
privLen == (bitSize + 7) \div 8

\* Lines 257-260: priv after priv[0] &= mask[bitSize%8]; priv[1] ^= 0x42.
\* (mask is indexed from 0 in the source, from 1 here.)
maskPriv(buf) ==
    LET m == [buf EXCEPT ![1] = BitAnd(buf[1], mask[(bitSize % 8) + 1], 8)]
    IN [m EXCEPT ![2] = BitXor(m[2], 66, 8)]

\* outOfRange with > for >=.
outOfRangeOffByOne(buf) == SetBytes(buf) > N

\* Line 263: new(safenum.Nat).SetBytes(priv).CmpMod(N) >= 0
outOfRange(buf) == SetBytes(buf) >= N

\* ------------------------------------------------------------------------
\* Inputs.

\* The affine points of the curve, reduced.
CurvePoints == {q \in (0..(P - 1)) \X (0..(P - 1)) : IsOnCurve(q[1], q[2])}

\* The point at infinity, as an affine pair.
Infinity == <<0, 0>>

\* A scalar as the big-endian byte string the callers pass.
ScalarBytes(k) == FillBytes(k, privLen)

\* The blocks the random source delivers: a first byte with all bits clear
\* or all set, and one second byte in four (0x42, which the xor turns into
\* 0, and 0x4f, which with a first byte of 0xff gives exactly N, among them).
RandBlocks ==
    {<<b0, b1>> : b0 \in {0, 255}, b1 \in {b \in 0..255 : b % 8 \in {2, 7}}}

\* The second operands Add is tried with.
AddOperands == {Infinity, <<Gx, Gy>>, <<Gx, P - Gy>>} \cup {q \in CurvePoints : q[1] = 0}

\* The second scalars tried with k: small ones, the largest, k itself
\* (doubling) and N - k (the inverse point).
SecondScalars(k) == {0, 1, 2, N - 1, k, (N - k) % N}

\* The byte strings received from outside: the compressed (tags 2 and 3)
\* and the uncompressed encodings of all coordinates up to P + 1.
WireInputs ==
    {<<t>> \o FillBytes(x, byteLen) : t \in {2, 3}, x \in 0..(P + 1)}
    \cup {<<4>> \o FillBytes(x, byteLen) \o FillBytes(y, byteLen) :
             x \in 0..(P + 1), y \in 0..(P + 1)}

\* ------------------------------------------------------------------------
\* Initial state: nothing called; GenerateKey at the head of its loop with
\* priv = make([]byte, byteLen); the package variables nil, initonce unused.

\* The threads calling the accessors, and the calls each makes.
NumThreads == 2
MaxCalls == 2
Threads == 1..NumThreads

\* The reads of the random source GenerateKey is followed for.
MaxReads == 3

NoErr == "nil"

Init ==
    /\ addArgs = <<>> /\ addRet = <<>>
    /\ k1 = Nil /\ k2 = Nil /\ pt1 = <<>> /\ pt2 = <<>>
    /\ ptSum = <<>> /\ ptTotal = <<>>
    /\ data = <<>> /\ src = "none" /\ pt = <<>> /\ cop = "none" /\ dec = <<>>
    /\ kpc = "loop" /\ priv = [i \in 1..privLen |-> 0]
    /\ kx = Nil /\ ky = Nil /\ kerr = NoErr /\ reads = 0 /\ mults = 0
    /\ opc = [t \in Threads |-> "idle"]
    /\ acc = [t \in Threads |-> "none"]
    /\ calls = [t \in Threads |-> 0]
    /\ onceDone = 0 /\ onceM = 0 /\ step = 0
    /\ p384 = 0 /\ p521 = 0 /\ heap = <<>> /\ allocs = 0
    /\ initRuns = 0 /\ returned = {}

\* ------------------------------------------------------------------------
\* Add: one call with a curve point (or infinity) on one side and one of
\* AddOperands on the other.

AddCall(x1, y1, x2, y2) ==
    /\ addArgs = <<>>
    /\ addArgs' = <<x1, y1, x2, y2>>
    /\ addRet' = Add(x1, y1, x2, y2)
    /\ UNCHANGED <<scalarVars, codecVars, keyVars, onceVars>>

AddRight == \E a \in CurvePoints \cup {Infinity}, b \in AddOperands :
                AddCall(a[1], a[2], b[1], b[2])

AddLeft == \E a \in CurvePoints \cup {Infinity}, b \in AddOperands :
               AddCall(b[1], b[2], a[1], a[2])

NextAdd == AddRight \/ AddLeft

SpecAdd == Init /\ [][NextAdd]_vars

\* ------------------------------------------------------------------------
\* ScalarMult: k1*G, then k2*G, then their sum by Add and (k1 + k2 mod N)*G.

ScalarMultFirst ==
    /\ k1 = Nil
    /\ \E k \in 0..(N - 1) :
          /\ k1' = k
          /\ pt1' = ScalarMult(Gx, Gy, ScalarBytes(k))
    /\ UNCHANGED <<k2, pt2, ptSum, ptTotal>>
    /\ UNCHANGED <<addVars, codecVars, keyVars, onceVars>>

ScalarMultSecond ==
    /\ k1 # Nil /\ k2 = Nil
    /\ \E k \in SecondScalars(k1) :
          /\ k2' = k
          /\ pt2' = ScalarMult(Gx, Gy, ScalarBytes(k))
    /\ UNCHANGED <<k1, pt1, ptSum, ptTotal>>
    /\ UNCHANGED <<addVars, codecVars, keyVars, onceVars>>

AddResults ==
    /\ k2 # Nil /\ ptSum = <<>>
    /\ ptSum' = Add(pt1[1], pt1[2], pt2[1], pt2[2])
    /\ UNCHANGED <<k1, k2, pt1, pt2, ptTotal>>
    /\ UNCHANGED <<addVars, codecVars, keyVars, onceVars>>

ScalarMultSum ==
    /\ k2 # Nil /\ ptTotal = <<>>
    /\ ptTotal' = ScalarMult(Gx, Gy, ScalarBytes((k1 + k2) % N))
    /\ UNCHANGED <<k1, k2, pt1, pt2, ptSum>>
    /\ UNCHANGED <<addVars, codecVars, keyVars, onceVars>>

NextScalar == ScalarMultFirst \/ ScalarMultSecond \/ AddResults \/ ScalarMultSum

SpecScalar == Init /\ [][NextScalar]_vars

\* ------------------------------------------------------------------------
\* The codec: a byte string is produced by Marshal or MarshalCompressed from
\* a point of the curve, or received from outside, is possibly damaged on
\* the way (one bit flipped, the last byte lost, one byte added), and is
\* then decoded by Unmarshal or UnmarshalCompressed.

MarshalCall ==
    /\ src = "none"
    /\ \E q \in CurvePoints :
          /\ pt' = q
          /\ data' = Marshal(q[1], q[2])
    /\ src' = "Marshal"
    /\ UNCHANGED <<cop, dec>>
    /\ UNCHANGED <<addVars, scalarVars, keyVars, onceVars>>

MarshalCompressedCall ==
    /\ src = "none"
    /\ \E q \in CurvePoints :
          /\ pt' = q
          /\ data' = MarshalCompressed(q[1], q[2])
    /\ src' = "MarshalCompressed"
    /\ UNCHANGED <<cop, dec>>
    /\ UNCHANGED <<addVars, scalarVars, keyVars, onceVars>>

Receive ==
    /\ src = "none"
    /\ \E d \in WireInputs : data' = d
    /\ src' = "wire"
    /\ UNCHANGED <<pt, cop, dec>>
    /\ UNCHANGED <<addVars, scalarVars, keyVars, onceVars>>

FlipBit ==
    /\ src \in {"Marshal", "MarshalCompressed"} /\ cop = "none"
    /\ \E i \in 1..Len(data), b \in 0..7 :
          data' = [data EXCEPT ![i] = BitXor(data[i], Pow2(b), 8)]
    /\ src' = "damaged"
    /\ UNCHANGED <<pt, cop, dec>>
    /\ UNCHANGED <<addVars, scalarVars, keyVars, onceVars>>

Truncate ==
    /\ src \in {"Marshal", "MarshalCompressed"} /\ cop = "none"
    /\ data' = SubSeq(data, 1, Len(data) - 1)
    /\ src' = "damaged"
    /\ UNCHANGED <<pt, cop, dec>>
    /\ UNCHANGED <<addVars, scalarVars, keyVars, onceVars>>

Extend ==
    /\ src \in {"Marshal", "MarshalCompressed"} /\ cop = "none"
    /\ data' = Append(data, 0)
    /\ src' = "damaged"
    /\ UNCHANGED <<pt, cop, dec>>
    /\ UNCHANGED <<addVars, scalarVars, keyVars, onceVars>>

UnmarshalCall ==
    /\ src # "none" /\ cop = "none"
    /\ cop' = "Unmarshal"
    /\ dec' = Unmarshal(data)
    /\ UNCHANGED <<data, src, pt>>
    /\ UNCHANGED <<addVars, scalarVars, keyVars, onceVars>>

UnmarshalCompressedCall ==
    /\ src # "none" /\ cop = "none"
    /\ cop' = "UnmarshalCompressed"
    /\ dec' = UnmarshalCompressed(data)
    /\ UNCHANGED <<data, src, pt>>
    /\ UNCHANGED <<addVars, scalarVars, keyVars, onceVars>>

NextCodec ==
    \/ MarshalCall \/ MarshalCompressedCall \/ Receive
    \/ FlipBit \/ Truncate \/ Extend
    \/ UnmarshalCall \/ UnmarshalCompressedCall

SpecCodec == Init /\ [][NextCodec]_vars

\* ------------------------------------------------------------------------
\* GenerateKey: one action per iteration of the loop.

\* io.ReadFull succeeds: the rest of the iteration, up to the loop test.
Draw ==
    /\ kpc = "loop" /\ reads < MaxReads
    /\ reads' = reads + 1
    /\ kerr' = NoErr
    /\ \E block \in RandBlocks :
          /\ priv' = maskPriv(block)
          /\ IF outOfRange(priv')
             THEN \* continue; x is still nil
                  /\ kpc' = "loop"
                  /\ UNCHANGED <<kx, ky, mults>>
             ELSE LET q == ScalarBaseMult(priv')
                  IN /\ kx' = q[1]
                     /\ ky' = q[2]
                     /\ mults' = mults + 1
                     /\ kpc' = IF q[1] = Nil THEN "loop" ELSE "done"
    /\ UNCHANGED <<addVars, scalarVars, codecVars, onceVars>>

\* ReadFail that goes round the loop again instead of returning.
ReadFailRetry ==
    /\ kpc = "loop" /\ reads < MaxReads
    /\ reads' = reads + 1
    /\ \E n \in 0..(privLen - 1), block \in RandBlocks :
          /\ priv' = [i \in 1..privLen |-> IF i <= n THEN block[i] ELSE priv[i]]
          /\ kerr' = IF n = 0 THEN "EOF" ELSE "ErrUnexpectedEOF"
    /\ kpc' = "loop"
    /\ UNCHANGED <<kx, ky, mults>>
    /\ UNCHANGED <<addVars, scalarVars, codecVars, onceVars>>

\* io.ReadFull fails after n < len(priv) bytes: GenerateKey returns.
ReadFail ==
    /\ kpc = "loop" /\ reads < MaxReads
    /\ reads' = reads + 1
    /\ \E n \in 0..(privLen - 1), block \in RandBlocks :
          /\ priv' = [i \in 1..privLen |-> IF i <= n THEN block[i] ELSE priv[i]]
          /\ kerr' = IF n = 0 THEN "EOF" ELSE "ErrUnexpectedEOF"
    /\ kpc' = "done"
    /\ UNCHANGED <<kx, ky, mults>>
    /\ UNCHANGED <<addVars, scalarVars, codecVars, onceVars>>

NextKey == Draw \/ ReadFail

SpecKey == Init /\ [][NextKey]_vars

\* ------------------------------------------------------------------------
\* The curve accessors P384() and P521(): initonce.Do(initAll), then the
\* return of the package variable.  Do of sync.Once: if done == 0, doSlow:
\* lock m; if done == 0, run f and then store done = 1; unlock m.

Accessors == {"P384", "P521"}

\* The fields of a CurveParams.
Fields == {"Name", "P", "N", "B", "Gx", "Gy", "BitSize"}

\* The steps of initAll in order: initP224 and initP256 (one step each),
\* then the assignments of initP384 and those of initP521.
InitSteps ==
    <<<<"p224", "init">>, <<"p256", "init">>,
      <<"p384", "Name">>, <<"p384", "P">>, <<"p384", "N">>, <<"p384", "B">>,
      <<"p384", "Gx">>, <<"p384", "Gy">>, <<"p384", "BitSize">>,
      <<"p521", "Name">>, <<"p521", "P">>, <<"p521", "N">>, <<"p521", "B">>,
      <<"p521", "Gx">>, <<"p521", "Gy">>, <<"p521", "BitSize">>>>

\* A thread enters P384() or P521().
Call(t) ==
    /\ opc[t] = "idle" /\ calls[t] < MaxCalls
    /\ \E a \in Accessors : acc' = [acc EXCEPT ![t] = a]
    /\ calls' = [calls EXCEPT ![t] = calls[t] + 1]
    /\ opc' = [opc EXCEPT ![t] = "do"]
    /\ UNCHANGED <<onceDone, onceM, step, p384, p521, heap, allocs, initRuns, returned>>
    /\ UNCHANGED <<addVars, scalarVars, codecVars, keyVars>>

\* A Do that sets the flag first and runs f outside the mutex: a caller
\* that finds the flag set returns while f is still running.
OnceDoFlagFirst(t) ==
    /\ opc[t] = "do"
    /\ IF onceDone = 0
       THEN /\ onceDone' = 1
            /\ opc' = [opc EXCEPT ![t] = "initAll"]
            /\ step' = 1
            /\ initRuns' = initRuns + 1
       ELSE /\ opc' = [opc EXCEPT ![t] = "return"]
            /\ UNCHANGED <<onceDone, step, initRuns>>
    /\ UNCHANGED <<acc, calls, onceM, p384, p521, heap, allocs, returned>>
    /\ UNCHANGED <<addVars, scalarVars, codecVars, keyVars>>

\* initonce.Do: the fast path reads done.
OnceDo(t) ==
    /\ opc[t] = "do"
    /\ opc' = [opc EXCEPT ![t] = IF onceDone = 0 THEN "doSlow" ELSE "return"]
    /\ UNCHANGED <<acc, calls, onceDone, onceM, step, p384, p521, heap, allocs,
                   initRuns, returned>>
    /\ UNCHANGED <<addVars, scalarVars, codecVars, keyVars>>

\* doSlow: o.m.Lock() waits while another thread holds the mutex.
OnceLock(t) ==
    /\ opc[t] = "doSlow" /\ onceM = 0
    /\ onceM' = t
    /\ opc' = [opc EXCEPT ![t] = "locked"]
    /\ UNCHANGED <<acc, calls, onceDone, step, p384, p521, heap, allocs,
                   initRuns, returned>>
    /\ UNCHANGED <<addVars, scalarVars, codecVars, keyVars>>

\* doSlow: done is read again under the mutex, and f entered if it is 0.
OnceRecheck(t) ==
    /\ opc[t] = "locked"
    /\ IF onceDone = 0
       THEN /\ opc' = [opc EXCEPT ![t] = "initAll"]
            /\ step' = 1
            /\ initRuns' = initRuns + 1
       ELSE /\ opc' = [opc EXCEPT ![t] = "unlock"]
            /\ UNCHANGED <<step, initRuns>>
    /\ UNCHANGED <<acc, calls, onceDone, onceM, p384, p521, heap, allocs, returned>>
    /\ UNCHANGED <<addVars, scalarVars, codecVars, keyVars>>

\* One step of initAll: p384 = &CurveParams{Name: ...} allocates the object,
\* every later assignment sets one more field of it; the same for p521.
InitStep(t) ==
    /\ opc[t] = "initAll" /\ step \in 1..Len(InitSteps)
    /\ LET var   == InitSteps[step][1]
           field == InitSteps[step][2]
       IN IF var \in {"p224", "p256"}
          THEN UNCHANGED <<p384, p521, heap, allocs>>
          ELSE IF field = "Name"
          THEN /\ allocs' = allocs + 1
               /\ heap' = Append(heap, {"Name"})
               /\ p384' = IF var = "p384" THEN allocs + 1 ELSE p384
               /\ p521' = IF var = "p521" THEN allocs + 1 ELSE p521
          ELSE /\ heap' = [heap EXCEPT ![IF var = "p384" THEN p384 ELSE p521] =
                                           @ \cup {field}]
               /\ UNCHANGED <<p384, p521, allocs>>
    /\ IF step = Len(InitSteps)
       THEN step' = 0 /\ opc' = [opc EXCEPT ![t] = "store"]
       ELSE step' = step + 1 /\ UNCHANGED opc
    /\ UNCHANGED <<acc, calls, onceDone, onceM, initRuns, returned>>
    /\ UNCHANGED <<addVars, scalarVars, codecVars, keyVars>>

\* doSlow: the deferred o.done.Store(1), after f has returned.
OnceStore(t) ==
    /\ opc[t] = "store"
    /\ onceDone' = 1
    /\ opc' = [opc EXCEPT ![t] = "unlock"]
    /\ UNCHANGED <<acc, calls, onceM, step, p384, p521, heap, allocs,
                   initRuns, returned>>
    /\ UNCHANGED <<addVars, scalarVars, codecVars, keyVars>>

\* doSlow: the deferred o.m.Unlock().
OnceUnlock(t) ==
    /\ opc[t] = "unlock"
    /\ onceM' = 0
    /\ opc' = [opc EXCEPT ![t] = "return"]
    /\ UNCHANGED <<acc, calls, onceDone, step, p384, p521, heap, allocs,
                   initRuns, returned>>
    /\ UNCHANGED <<addVars, scalarVars, codecVars, keyVars>>

\* return p384 / return p521: the object returned, the fields it has at that
\* moment, and whether initAll has run to its end.
Return(t) ==
    /\ opc[t] = "return"
    /\ LET obj == IF acc[t] = "P384" THEN p384 ELSE p521
       IN returned' = returned \cup
              {<<acc[t], obj, IF obj = 0 THEN {} ELSE heap[obj],
                 initRuns > 0 /\ step = 0>>}
    /\ opc' = [opc EXCEPT ![t] = "idle"]
    /\ UNCHANGED <<acc, calls, onceDone, onceM, step, p384, p521, heap, allocs,
                   initRuns>>
    /\ UNCHANGED <<addVars, scalarVars, codecVars, keyVars>>

NextOnce ==
    \E t \in Threads :
        \/ Call(t) \/ OnceDo(t) \/ OnceLock(t) \/ OnceRecheck(t)
        \/ InitStep(t) \/ OnceStore(t) \/ OnceUnlock(t) \/ Return(t)

SpecOnce == Init /\ [][NextOnce]_vars

\* ------------------------------------------------------------------------
\* C7: Add(A, infinity) = A and Add(infinity, A) = A for every point A of
\* the curve, those with x = 0 included.
AddIdentity ==
    addArgs # <<>> =>
        LET a == <<addArgs[1], addArgs[2]>>
            b == <<addArgs[3], addArgs[4]>>
        IN /\ (a \in CurvePoints /\ b = Infinity) => addRet = a
           /\ (b \in CurvePoints /\ a = Infinity) => addRet = b

\* C8: ScalarMult(G, (k1 + k2) mod N) = Add(ScalarMult(G, k1), ScalarMult(G, k2))
\* for all scalars k1, k2 in [0, N).
ScalarDistributes ==
    (ptSum # <<>> /\ ptTotal # <<>>) => ptTotal = ptSum

\* v has no square root modulo P.
NonResidue(v) == \A r \in 0..(P - 1) : (r * r) % P # v % P

\* C1: a point of the curve with x, y < P comes back unchanged from
\* Unmarshal(Marshal(x, y)) and from
\* UnmarshalCompressed(MarshalCompressed(x, y)): never "no point", and with
\* the original y, not P - y.
CodecRoundTrip ==
    /\ (src = "Marshal" /\ cop = "Unmarshal") => dec = pt
    /\ (src = "MarshalCompressed" /\ cop = "UnmarshalCompressed") => dec = pt

\* C1 happens: a compressed point was decoded whose y is not the root
\* ModSqrt computes, so that the decoder had to negate it.
CodecRoundTripWitness ==
    /\ src = "MarshalCompressed" /\ cop = "UnmarshalCompressed"
    /\ dec = pt
    /\ ModSqrt(0, polynomial(pt[1]), P) # pt[2]

\* C2: Unmarshal returns a point exactly when the length is 1 + 2*byteLen,
\* byte 0 is 4, both coordinates are below P and IsOnCurve holds, and that
\* point is the decoded (x, y); every other byte string gives x = nil,
\* y = nil.
UnmarshalAcceptsExactly ==
    cop = "Unmarshal" =>
        LET x == SetBytes(SubSeq(data, 2, 1 + byteLen))
            y == SetBytes(SubSeq(data, 2 + byteLen, Len(data)))
            ok == /\ Len(data) = 1 + 2 * byteLen
                  /\ data[1] = 4
                  /\ x < P /\ y < P
                  /\ IsOnCurve(x, y)
        IN /\ (dec # NilPoint) <=> ok
           /\ ok => dec = <<x, y>>

\* C2 happens: the well-formed encoding of the infinity pair (0, 0) was
\* decoded and rejected.
UnmarshalRejectsWitness ==
    /\ cop = "Unmarshal"
    /\ data = Marshal(0, 0)
    /\ dec = NilPoint

\* C9: a compressed byte string of the right length, with tag 2 or 3 and
\* x < P, whose x^3 - 3x + B has no square root mod P decodes to x = nil,
\* y = nil.
NoRootRejected ==
    (/\ cop = "UnmarshalCompressed"
     /\ Len(data) = 1 + byteLen
     /\ data[1] \in {2, 3}
     /\ SetBytes(SubSeq(data, 2, Len(data))) < P
     /\ NonResidue(polynomial(SetBytes(SubSeq(data, 2, Len(data))))))
    => dec = NilPoint

\* C9 happens: such a byte string was decoded.
NoRootWitness ==
    /\ cop = "UnmarshalCompressed"
    /\ Len(data) = 1 + byteLen
    /\ data[1] \in {2, 3}
    /\ SetBytes(SubSeq(data, 2, Len(data))) < P
    /\ NonResidue(polynomial(SetBytes(SubSeq(data, 2, Len(data)))))
    /\ dec = NilPoint

\* C10: a point returned by UnmarshalCompressed has the parity of the tag
\* byte in its y and is on the curve, and the same x under the other tag
\* decodes to the other root P - y.
ParitySelected ==
    (cop = "UnmarshalCompressed" /\ dec # NilPoint) =>
        /\ dec[2] % 2 = data[1] % 2
        /\ IsOnCurve(dec[1], dec[2])
        /\ LET other == UnmarshalCompressed(
                            <<IF data[1] = 2 THEN 3 ELSE 2>> \o Tail(data))
           IN /\ other = <<dec[1], P - dec[2]>>
              /\ other # dec

\* C10 happens: a byte string with tag 3 that no marshalling produced was
\* decoded to a point.
ParityWitness ==
    /\ cop = "UnmarshalCompressed" /\ src = "wire"
    /\ data[1] = 3
    /\ dec # NilPoint

\* C3: when GenerateKey returns without error, priv read as a big-endian
\* integer is in [0, N) and (x, y) is ScalarBaseMult of those priv bytes,
\* whatever the random source delivered before.
KeyInRange ==
    (kpc = "done" /\ kerr = NoErr) =>
        /\ SetBytes(priv) >= 0 /\ SetBytes(priv) < N
        /\ <<kx, ky>> = ScalarBaseMult(priv)

\* C3 happens: a key was returned after out-of-range draws were discarded.
KeyInRangeWitness ==
    /\ kpc = "done" /\ kerr = NoErr
    /\ reads >= 2
    /\ kx # Nil

\* C4: GenerateKey never returns the point at infinity without error:
\* the returned point is not (0, 0) and is on the curve.
KeyNeverInfinity ==
    (kpc = "done" /\ kerr = NoErr) =>
        /\ <<kx, ky>> # Infinity
        /\ IsOnCurve(kx, ky)

\* C5: a failed read ends GenerateKey at once, with that error and x = nil,
\* y = nil, with no scalar multiplication, and no read follows it.
EntropyFailureSurfaced ==
    [][kerr' # NoErr =>
          /\ kpc' = "done"
          /\ kx' = Nil /\ ky' = Nil
          /\ mults' = mults
          /\ (kerr = NoErr => reads' = reads + 1)
          /\ (kerr # NoErr => reads' = reads)]_vars

\* C5 happens: a read failed after earlier draws had been discarded.
EntropyFailureWitness ==
    /\ kerr # NoErr
    /\ reads >= 2
    /\ kpc = "done"

\* C6: under every interleaving of calls of P384() and P521(), initAll is
\* entered at most once, and exactly once when a call has returned; no call
\* returns before initAll has run to its end; every returned object has all
\* its fields set; and all calls of one accessor return the same object.
OnceInitialises ==
    /\ initRuns <= 1
    /\ returned # {} => initRuns = 1
    /\ \A r \in returned : r[2] # 0 /\ r[3] = Fields /\ r[4]
    /\ \A r1, r2 \in returned : r1[1] = r2[1] => r1[2] = r2[2]

\* C6 happens: a thread has returned from its first call while another, in
\* its first call of the other accessor, went through doSlow.
OnceWitness ==
    \E t, u \in Threads :
        /\ t # u
        /\ calls[t] = 1 /\ calls[u] = 1
        /\ acc[t] # acc[u]
        /\ opc[t] = "idle" /\ opc[u] = "unlock"
        /\ returned # {}

====
